---- MODULE Spec2Model ----
(***************************************************************************)
(* Secure-File-Management-System: the MFA utilities (src/utils/mfa.ts) and *)
(* the upload modal's encryption flow (src/components/upload-modal.tsx).   *)
(*                                                                         *)
(* Strings are sequences of one-character strings, so that length,         *)
(* character classes and percent-encoding are computed, not assumed.       *)
(***************************************************************************)
EXTENDS Integers, Sequences, FiniteSets, TLC

VARIABLES
    \* ---- verifyTOTP (mfa.ts:38-64) ----
    pc,             \* position of the verifyTOTP call
    code,           \* argument: the code the user typed
    secret,         \* argument: the Base32 secret
    now,            \* the wall clock (Date.now()), in ms
    callTime,       \* the clock value when verifyTOTP was called
    totp,           \* the OTPAuth.TOTP object of the call
    currentToken, previousToken, nextToken,
    reads,          \* the clock values the call has read so far
    result,         \* the value returned (meaningful once outcome = "returned")
    outcome,        \* "none" | "returned" | "threw"
    stamps,         \* the timestamps the call generated tokens for
    prev,           \* summary of the previous verifyTOTP call
    \* ---- generateMFAQRCode (mfa.ts:21-35) ----
    qrPc,           \* position of the generateMFAQRCode call
    qrSecret, qrEmail, qrAppName,   \* its arguments
    otpAuthUrl,     \* the provisioning URI handed to QRCode.toDataURL
    qrOutcome,      \* "none" | "returned" | "threw"
    qrResult,       \* the QR code data URL returned
    \* ---- generateMFASecret (mfa.ts:10-18) ----
    genPc,          \* position of the generateMFASecret call
    genI,           \* the loop variable i
    genSecret,      \* the local `secret`
    genIndex,       \* the last randomIndex computed
    \* ---- UploadModal (upload-modal.tsx:40-636) ----
    ui,             \* the component's useState values (lines 41-56)
    isOpen,         \* the prop isOpen, owned by the parent
    hasOnUpload,    \* whether the parent passed the optional prop onUpload
    encrypting,     \* encryptFile calls in flight: [id, file, viaUpload]
    uploading,      \* number of onUpload calls in flight
    previewing,     \* generateFilePreview calls in flight, started by generatePreview
    previewClicks,  \* generateFilePreview calls in flight, started by handlePreviewClick
    toast,          \* title of the toast the last step raised, "none" if none
    onUploadArg,    \* argument of the onUpload call the last step made, Null if none
    onCloseCalls    \* number of onClose calls the last step made

totpVars == <<pc, code, secret, now, callTime, totp, currentToken,
              previousToken, nextToken, reads, result, outcome, stamps, prev>>

qrVars == <<qrPc, qrSecret, qrEmail, qrAppName, otpAuthUrl, qrOutcome, qrResult>>

genVars == <<genPc, genI, genSecret, genIndex>>

modalVars == <<ui, isOpen, hasOnUpload, encrypting, uploading, previewing, previewClicks,
               toast, onUploadArg, onCloseCalls>>

vars == <<totpVars, qrVars, genVars, modalVars>>

\* a variable that holds no object (null / undefined)
Null == [null |-> TRUE]
\* a string variable not yet assigned
NoToken == <<>>

\* ------------------------------------------------------------ bounds
FirstStep == 2        \* first 30 s time step the clock can start in
MaxStep == 5          \* last 30 s time step the clock can start in
MaxAdvanceMs == 1     \* the clock advances 0..MaxAdvanceMs between two statements
RandDenom == 64       \* Math.random() returns k / RandDenom, k in 0..RandDenom-1
MaxEncrypting == 2    \* encryptFile calls in flight at once
MaxUploading == 1     \* onUpload calls in flight at once
MaxPreviewing == 1    \* generateFilePreview calls in flight at once, per caller

\* ------------------------------------------------------------ strings
DigitChars == <<"0", "1", "2", "3", "4", "5", "6", "7", "8", "9">>

IsDigit(c) == \E i \in 1..10 : DigitChars[i] = c

RECURSIVE ToDecimal(_)
\* String(n) for a non-negative integer
ToDecimal(n) ==
    IF n < 10 THEN <<DigitChars[n + 1]>>
    ELSE ToDecimal(n \div 10) \o <<DigitChars[(n % 10) + 1]>>

RECURSIVE PadStart(_, _, _)
\* String.prototype.padStart
PadStart(s, len, c) == IF Len(s) >= len THEN s ELSE PadStart(<<c>> \o s, len, c)

\* ------------------------------------------------------------ Base32
\* mfa.ts:7
BASE32_CHARS ==
    <<"A", "B", "C", "D", "E", "F", "G", "H", "I", "J", "K", "L", "M", "N", "O", "P",
      "Q", "R", "S", "T", "U", "V", "W", "X", "Y", "Z", "2", "3", "4", "5", "6", "7">>

Base32Index(c) ==
    IF \E i \in 1..Len(BASE32_CHARS) : BASE32_CHARS[i] = c
    THEN (CHOOSE i \in 1..Len(BASE32_CHARS) : BASE32_CHARS[i] = c) - 1
    ELSE -1

IsBase32(s) == \A i \in 1..Len(s) : Base32Index(s[i]) >= 0

RECURSIVE Base32Bytes(_, _, _, _)
\* the decoding loop of OTPAuth.Secret.fromBase32: 5 bits per character,
\* a byte emitted whenever 8 bits are available, trailing bits dropped
Base32Bytes(s, i, bits, value) ==
    IF i > Len(s) THEN <<>>
    ELSE LET v == value * 32 + Base32Index(s[i])
             b == bits + 5
         IN IF b >= 8
            THEN <<v \div (2 ^ (b - 8))>> \o Base32Bytes(s, i + 1, b - 8, v % (2 ^ (b - 8)))
            ELSE Base32Bytes(s, i + 1, b, v)

\* OTPAuth.Secret.fromBase32(secret): the key bytes, or a TypeError on a
\* character outside the alphabet
SecretFromBase32(s) ==
    IF IsBase32(s) THEN [ok |-> TRUE, bytes |-> Base32Bytes(s, 1, 0, 0)]
    ELSE [ok |-> FALSE, bytes |-> <<>>]

\* ------------------------------------------------------------ TOTP (otpauth)
TotpAlgorithm == <<"S", "H", "A", "1">>     \* mfa.ts:44
TotpDigits == 6                              \* mfa.ts:45
TotpPeriodDoubled == 2 * 30
TotpPeriod == 30                             \* mfa.ts:46

RECURSIVE KeyFold(_, _)
KeyFold(bytes, h) ==
    IF bytes = <<>> THEN h ELSE KeyFold(Tail(bytes), (h * 31 + Head(bytes)) % 65521)

\* The truncated HMAC of (key, counter), reduced modulo 10^digits.  HMAC-SHA1 is
\* computed inside the otpauth library; the model keeps what verifyTOTP relies on:
\* a fixed function of the key bytes and the counter, nothing else.
HotpValue(bytes, counter, digits) ==
    (KeyFold(bytes, 7) * 7919 + counter * 104729 + 13) % (10 ^ digits)

\* TOTP.generate({timestamp}): counter = floor(timestamp / 1000 / period),
\* token = the HOTP value as a decimal string left-padded with "0" to `digits`
TotpGenerate(t, timestamp) ==
    PadStart(ToDecimal(HotpValue(t.key, (timestamp \div 1000) \div t.period, t.digits)),
             t.digits, "0")

\* new OTPAuth.TOTP({...}) of mfa.ts:41-48, given the decoded key
NewTOTP(bytes) ==
    [issuer |-> "SecureVault", label |-> "SecureVault", algorithm |-> TotpAlgorithm,
     digits |-> TotpDigits, period |-> TotpPeriod, key |-> bytes]

\* ------------------------------------------------------------ verifyTOTP
PreviousOffsetMs == 30000     \* mfa.ts:55
NextOffsetMs == 30000         \* mfa.ts:56

PreviousTimestampShort(t) == t - (PreviousOffsetMs \div 10)

\* mfa.ts:55
PreviousTimestamp(t) == t - PreviousOffsetMs
\* mfa.ts:56
NextTimestamp(t) == t + NextOffsetMs

IsPrefixOf(c, tok) == Len(c) <= Len(tok) /\ c = SubSeq(tok, 1, Len(c))

CodeMatchesPrefix(c, cur, prv, nxt) ==
    IsPrefixOf(c, cur) \/ IsPrefixOf(c, prv) \/ IsPrefixOf(c, nxt)

\* mfa.ts:59
CodeMatches(c, cur, prv, nxt) == c = cur \/ c = prv \/ c = nxt

OnErrorRethrow == [outcome |-> "threw", result |-> FALSE]

\* mfa.ts:60-63: the catch block turns any error into the result false
OnError == [outcome |-> "returned", result |-> FALSE]

StepMs == TotpPeriod * 1000
StepOf(t) == t \div StepMs

\* clock values a call can start at: chosen offsets inside each step
StartOffsets == {0, 5000, 24999, 25000, StepMs - 1}
StartTimes == {k * StepMs + o : k \in FirstStep..MaxStep, o \in StartOffsets}
Advances == 0..MaxAdvanceMs

\* secrets handed to verifyTOTP
ExampleSecret ==
    <<"J", "B", "S", "W", "Y", "3", "D", "P", "E", "H", "P", "K", "3", "P", "X", "P">>
ValidSecrets == {ExampleSecret, <<"M", "Z", "X", "W", "6", "Y", "T", "B">>, <<"A", "A">>}
MalformedSecrets == {<<"J", "B", "1", "W">>, <<"!", "!">>, <<"0", "8", "9">>}
AllSecrets == ValidSecrets \cup MalformedSecrets

\* the token of secret s for the step k (s valid)
TokenOfStep(s, k) == TotpGenerate(NewTOTP(SecretFromBase32(s).bytes), k * StepMs)

\* codes that are not six digits
MalformedCodesNear(tok) ==
    { SubSeq(tok, 1, 5), tok \o <<"0">>, <<"a">> \o SubSeq(tok, 2, 6),
      SubSeq(tok, 1, 5) \o <<" ">>, <<>> }

\* the codes a caller may supply when the clock shows t
CodesFor(s, t) ==
    LET k == StepOf(t)
        ref == IF IsBase32(s) THEN s ELSE ExampleSecret
        toks == {TokenOfStep(ref, j) : j \in (k - 3)..(k + 3)}
    IN toks \cup MalformedCodesNear(TokenOfStep(ref, k))
            \cup MalformedCodesNear(TokenOfStep(ref, k - 1))
            \cup {<<"0", "0", "0", "0", "0", "0">>}

InitTotp ==
    /\ pc = "idle"
    /\ code = <<>>
    /\ secret = <<>>
    /\ now \in StartTimes
    /\ callTime = 0
    /\ totp = Null
    /\ currentToken = NoToken
    /\ previousToken = NoToken
    /\ nextToken = NoToken
    /\ reads = <<>>
    /\ stamps = <<>>
    /\ result = FALSE
    /\ outcome = "none"
    /\ prev = Null

\* a caller invokes verifyTOTP(code, secret) at the clock value `now`
VerifyCall(Inputs) ==
    /\ pc = "idle"
    /\ \E arg \in Inputs :
          /\ secret' = arg[1]
          /\ code' = arg[2]
    /\ callTime' = now
    /\ pc' = "construct"
    /\ totp' = Null
    /\ currentToken' = NoToken
    /\ previousToken' = NoToken
    /\ nextToken' = NoToken
    /\ reads' = <<>>
    /\ stamps' = <<>>
    /\ result' = FALSE
    /\ outcome' = "none"
    /\ UNCHANGED <<now, prev>>
    /\ UNCHANGED <<qrVars, genVars, modalVars>>

\* mfa.ts:41-48: build the TOTP object; fromBase32 may throw, caught at line 60
Construct ==
    /\ pc = "construct"
    /\ LET k == SecretFromBase32(secret)
       IN IF k.ok
          THEN /\ totp' = NewTOTP(k.bytes)
               /\ pc' = "current"
               /\ UNCHANGED <<result, outcome>>
          ELSE /\ totp' = Null
               /\ pc' = "done"
               /\ result' = OnError.result
               /\ outcome' = OnError.outcome
    /\ UNCHANGED <<code, secret, now, callTime, currentToken, previousToken, nextToken,
                   reads, stamps, prev>>
    /\ UNCHANGED <<qrVars, genVars, modalVars>>

\* mfa.ts:51: totp.generate() reads the clock itself
GenerateCurrent ==
    /\ pc = "current"
    /\ \E d \in Advances :
          /\ now' = now + d
          /\ currentToken' = TotpGenerate(totp, now')
          /\ stamps' = Append(stamps, now')
          /\ reads' = Append(reads, now')
    /\ pc' = "previous"
    /\ UNCHANGED <<code, secret, callTime, totp, previousToken, nextToken, result,
                   outcome, prev>>
    /\ UNCHANGED <<qrVars, genVars, modalVars>>

\* mfa.ts:55: a second read of the clock
GeneratePrevious ==
    /\ pc = "previous"
    /\ \E d \in Advances :
          /\ now' = now + d
          /\ previousToken' = TotpGenerate(totp, PreviousTimestamp(now'))
          /\ stamps' = Append(stamps, PreviousTimestamp(now'))
          /\ reads' = Append(reads, now')
    /\ pc' = "next"
    /\ UNCHANGED <<code, secret, callTime, totp, currentToken, nextToken, result,
                   outcome, prev>>
    /\ UNCHANGED <<qrVars, genVars, modalVars>>

\* mfa.ts:56: a third read of the clock
GenerateNext ==
    /\ pc = "next"
    /\ \E d \in Advances :
          /\ now' = now + d
          /\ nextToken' = TotpGenerate(totp, NextTimestamp(now'))
          /\ stamps' = Append(stamps, NextTimestamp(now'))
          /\ reads' = Append(reads, now')
    /\ pc' = "compare"
    /\ UNCHANGED <<code, secret, callTime, totp, currentToken, previousToken, result,
                   outcome, prev>>
    /\ UNCHANGED <<qrVars, genVars, modalVars>>

CompareOnce ==
    /\ pc = "compare"
    /\ result' = (/\ CodeMatches(code, currentToken, previousToken, nextToken)
                  /\ ~(prev # Null /\ prev.result = TRUE /\ prev.code = code))
    /\ outcome' = "returned"
    /\ pc' = "done"
    /\ UNCHANGED <<code, secret, now, callTime, totp, currentToken, previousToken,
                   nextToken, reads, stamps, prev>>
    /\ UNCHANGED <<qrVars, genVars, modalVars>>

\* mfa.ts:59: the character pairs `a === b` examines: none when the lengths differ,
\* else the pairs up to and including the first that differs
StrictEqualsCost(a, b) ==
    IF Len(a) # Len(b) THEN 0
    ELSE IF a = b THEN Len(a)
    ELSE CHOOSE m \in 1..Len(a) : a[m] # b[m] /\ \A j \in 1..(m - 1) : a[j] = b[j]

\* mfa.ts:59: the pairs examined by the three comparisons; `||` stops at the first
\* that is true
CompareCost(c, cur, prv, nxt) ==
    StrictEqualsCost(c, cur)
    + (IF c = cur THEN 0
       ELSE StrictEqualsCost(c, prv)
            + (IF c = prv THEN 0 ELSE StrictEqualsCost(c, nxt)))

\* mfa.ts:59
Compare ==
    /\ pc = "compare"
    /\ result' = CodeMatches(code, currentToken, previousToken, nextToken)
    /\ outcome' = "returned"
    /\ pc' = "done"
    /\ UNCHANGED <<code, secret, now, callTime, totp, currentToken, previousToken,
                   nextToken, reads, stamps, prev>>
    /\ UNCHANGED <<qrVars, genVars, modalVars>>

\* the call has returned (or thrown): the caller goes on, and may call again later, at
\* whatever the wall clock shows then; nothing of the call is kept by mfa.ts
Return(Times) ==
    /\ pc = "done"
    /\ pc' = "idle"
    /\ prev' = [code |-> code, secret |-> secret, reads |-> reads,
                result |-> result, outcome |-> outcome]
    /\ now' \in Times
    /\ UNCHANGED <<code, secret, callTime, totp, currentToken, previousToken, nextToken,
                   reads, stamps, result, outcome>>
    /\ UNCHANGED <<qrVars, genVars, modalVars>>

VerifySteps == Construct \/ GenerateCurrent \/ GeneratePrevious \/ GenerateNext \/ Compare

\* ------------------------------------------------------------ generateMFAQRCode
\* the characters encodeURIComponent leaves as they are
UnreservedChars ==
    { "A", "B", "C", "D", "E", "F", "G", "H", "I", "J", "K", "L", "M",
      "N", "O", "P", "Q", "R", "S", "T", "U", "V", "W", "X", "Y", "Z" }
    \cup { "a", "b", "c", "d", "e", "f", "g", "h", "i", "j", "k", "l", "m",
      "n", "o", "p", "q", "r", "s", "t", "u", "v", "w", "x", "y", "z" }
    \cup {DigitChars[i] : i \in 1..10}
    \cup {"-", "_", ".", "!", "~", "*", "'", "(", ")"}

\* the UTF-8 percent-encoding of the reserved characters the model uses
EscapeOf(c) ==
    CASE c = " " -> <<"%", "2", "0">>
      [] c = "#" -> <<"%", "2", "3">>
      [] c = "%" -> <<"%", "2", "5">>
      [] c = "&" -> <<"%", "2", "6">>
      [] c = "+" -> <<"%", "2", "B">>
      [] c = "/" -> <<"%", "2", "F">>
      [] c = ":" -> <<"%", "3", "A">>
      [] c = "=" -> <<"%", "3", "D">>
      [] c = "?" -> <<"%", "3", "F">>
      [] c = "@" -> <<"%", "4", "0">>

\* a lone UTF-16 surrogate, one code unit: encodeURIComponent throws URIError on it
LoneSurrogate == "<U+D800>"

HasLoneSurrogate(s) == \E i \in 1..Len(s) : s[i] = LoneSurrogate

RECURSIVE encodeURIComponent(_)
\* encodeURIComponent of a string without lone surrogates
encodeURIComponent(s) ==
    IF s = <<>> THEN <<>>
    ELSE (IF Head(s) \in UnreservedChars THEN <<Head(s)>> ELSE EscapeOf(Head(s)))
         \o encodeURIComponent(Tail(s))

OtpAuthPrefix == <<"o", "t", "p", "a", "u", "t", "h", ":", "/", "/", "t", "o", "t", "p", "/">>
SecretParam == <<"?", "s", "e", "c", "r", "e", "t", "=">>
IssuerParam == <<"&", "i", "s", "s", "u", "e", "r", "=">>
FixedParams == <<"&", "a", "l", "g", "o", "r", "i", "t", "h", "m", "=", "S", "H", "A", "1", "&", "d", "i", "g", "i", "t", "s", "=", "6", "&", "p", "e", "r", "i", "o", "d", "=", "3", "0">>

BuildOtpAuthUrlRawLabel(sec, mail, app) ==
    OtpAuthPrefix \o encodeURIComponent(app) \o <<":">> \o mail
    \o SecretParam \o sec \o IssuerParam \o encodeURIComponent(app) \o FixedParams

\* mfa.ts:28
BuildOtpAuthUrl(sec, mail, app) ==
    OtpAuthPrefix \o encodeURIComponent(app) \o <<":">> \o encodeURIComponent(mail)
    \o SecretParam \o sec \o IssuerParam \o encodeURIComponent(app) \o FixedParams

\* mfa.ts:24
DefaultAppName == <<"S", "e", "c", "u", "r", "e", "V", "a", "u", "l", "t">>

InitQr ==
    /\ qrPc = "idle"
    /\ qrSecret = <<>>
    /\ qrEmail = <<>>
    /\ qrAppName = <<>>
    /\ otpAuthUrl = NoToken
    /\ qrOutcome = "none"
    /\ qrResult = Null

\* a caller invokes generateMFAQRCode(secret, email, appName)
QrCall(Secrets, Emails, AppNames) ==
    /\ qrPc = "idle"
    /\ \E s \in Secrets : \E m \in Emails : \E a \in AppNames :
          /\ qrSecret' = s
          /\ qrEmail' = m
          /\ qrAppName' = a
    /\ qrPc' = "build"
    /\ UNCHANGED <<otpAuthUrl, qrOutcome, qrResult>>
    /\ UNCHANGED <<totpVars, genVars, modalVars>>

\* mfa.ts:28: the template literal; a URIError is caught at line 31 and
\* rethrown as Error('Failed to generate QR code') at line 33
QrBuild ==
    /\ qrPc = "build"
    /\ IF HasLoneSurrogate(qrEmail) \/ HasLoneSurrogate(qrAppName)
       THEN /\ qrPc' = "done"
            /\ qrOutcome' = "threw"
            /\ UNCHANGED otpAuthUrl
       ELSE /\ otpAuthUrl' = BuildOtpAuthUrl(qrSecret, qrEmail, qrAppName)
            /\ qrPc' = "render"
            /\ UNCHANGED qrOutcome
    /\ UNCHANGED <<qrSecret, qrEmail, qrAppName, qrResult>>
    /\ UNCHANGED <<totpVars, genVars, modalVars>>

\* mfa.ts:29-30: QRCode.toDataURL resolves with the image of the URI
QrRendered ==
    /\ qrPc = "render"
    /\ qrResult' = [qrCodeOf |-> otpAuthUrl]
    /\ qrOutcome' = "returned"
    /\ qrPc' = "done"
    /\ UNCHANGED <<qrSecret, qrEmail, qrAppName, otpAuthUrl>>
    /\ UNCHANGED <<totpVars, genVars, modalVars>>

\* mfa.ts:31-34: QRCode.toDataURL rejects; the error is logged and replaced
QrRenderFailed ==
    /\ qrPc = "render"
    /\ qrOutcome' = "threw"
    /\ qrPc' = "done"
    /\ UNCHANGED <<qrSecret, qrEmail, qrAppName, otpAuthUrl, qrResult>>
    /\ UNCHANGED <<totpVars, genVars, modalVars>>

QrSteps == QrBuild \/ QrRendered \/ QrRenderFailed

QrEmails ==
    { <<"a", "l", "i", "c", "e", "@", "e", "x", "a", "m", "p", "l", "e", ".", "c", "o", "m">>, <<"a", " ", "b">>, <<"x", "&", "y", "=", "1">>,
      <<"a", "%", "4", "0">>, <<"a", ":", "b", "?", "#">>, <<"a", "+", "b", "/", "c">>,
      <<>>, <<"a", LoneSurrogate>> }
QrAppNames ==
    { DefaultAppName, <<"M", "y", " ", "A">>, <<"A", ":", "B">>, <<"a", "/", "b", "&">> }
QrSecrets ==
    { ExampleSecret, <<"A", "A">>, <<"J", "B", "1", "W">>, <<"A", "&", "B", "=">>,
      <<"A", " ", "%">> }

\* ------------------------------------------------------------ generateMFASecret
SecretLength == 16      \* mfa.ts:13

\* the values Math.random() returns, as numerators over RandDenom: the least
\* value, 0, and the greatest value below 1
RandomDraws == {0, RandDenom - 1}

\* mfa.ts:14: the function each character's randomness is drawn from
RandomSource == "Math.random"

RandomIndexRounded(k) == (2 * k * Len(BASE32_CHARS) + RandDenom) \div (2 * RandDenom)

\* mfa.ts:14: Math.floor(Math.random() * BASE32_CHARS.length), the draw being k / RandDenom
RandomIndex(k) == (k * Len(BASE32_CHARS)) \div RandDenom

\* mfa.ts:15: BASE32_CHARS[randomIndex] as `+=` appends it; an index outside the
\* string yields undefined, appended as the text "undefined"
CharsAt(idx) ==
    IF idx \in 0..(Len(BASE32_CHARS) - 1) THEN <<BASE32_CHARS[idx + 1]>>
    ELSE <<"u", "n", "d", "e", "f", "i", "n", "e", "d">>

InitGen ==
    /\ genPc = "idle"
    /\ genI = 0
    /\ genSecret = <<>>
    /\ genIndex = 0

\* mfa.ts:12-13: let secret = ''; let i = 0
GenCall ==
    /\ genPc = "idle"
    /\ genPc' = "loop"
    /\ genI' = 0
    /\ genSecret' = <<>>
    /\ UNCHANGED genIndex
    /\ UNCHANGED <<totpVars, qrVars, modalVars>>

\* mfa.ts:13-16: one iteration of the loop
GenStep ==
    /\ genPc = "loop"
    /\ genI < SecretLength
    /\ \E k \in RandomDraws :
          /\ genIndex' = RandomIndex(k)
          /\ genSecret' = genSecret \o CharsAt(RandomIndex(k))
    /\ genI' = genI + 1
    /\ UNCHANGED genPc
    /\ UNCHANGED <<totpVars, qrVars, modalVars>>

\* mfa.ts:13, 17: the loop ends, the secret is returned
GenReturn ==
    /\ genPc = "loop"
    /\ ~(genI < SecretLength)
    /\ genPc' = "done"
    /\ UNCHANGED <<genI, genSecret, genIndex>>
    /\ UNCHANGED <<totpVars, qrVars, modalVars>>

NextGen == GenCall \/ GenStep \/ GenReturn

\* ------------------------------------------------------------ UploadModal
\* File objects: a selected file, or the file encryptFile produced from it
PlainFile(name, type, size) == [name |-> name, type |-> type, size |-> size, encryptedBy |-> 0]
Files == {PlainFile("a.txt", "text/plain", 2048), PlainFile("b.bin", "", 100)}

\* upload-modal.tsx:83-87 and 129-133: type || 'Unknown', (size / 1024).toFixed(2) in
\* hundredths of a KB
FileDetailsOf(f) ==
    [type |-> IF f.type = "" THEN "Unknown" ELSE f.type,
     sizeKBx100 |-> (2 * 100 * f.size + 1024) \div 2048]

\* encryptFile(file) resolved (utils/encryption, spec 4.4): the encrypted file and a
\* key and iv generated for this call alone
EncryptFileResult(f, id) ==
    [encryptedFile |-> [name |-> f.name, type |-> "application/octet-stream",
                        size |-> f.size, encryptedBy |-> id],
     algorithm |-> "AES", encryptionKey |-> <<"key", id>>, iv |-> <<"iv", id>>,
     checksum |-> <<"sha", f.name>>]

\* generateFilePreview(file) resolved (utils/encryption)
PreviewOf(f) == [previewOf |-> f.name]

TagValues == {"work"}

\* upload-modal.tsx:41-56
InitialUi ==
    [file |-> Null, preview |-> Null, isEncrypting |-> FALSE, isUploading |-> FALSE,
     encrypt |-> FALSE, encryptionResult |-> Null, encrypted |-> FALSE,
     fileDetails |-> Null, tags |-> <<>>, isPreviewModalOpen |-> FALSE,
     previewContent |-> Null, showEncryptionConfirmation |-> FALSE]

InitModal ==
    /\ ui = InitialUi
    /\ isOpen = FALSE
    /\ hasOnUpload \in BOOLEAN
    /\ encrypting = {}
    /\ uploading = 0
    /\ previewing = {}
    /\ previewClicks = {}
    /\ toast = "none"
    /\ onUploadArg = Null
    /\ onCloseCalls = 0

\* what a step that raises no toast and calls neither onUpload nor onClose leaves
Quiet ==
    /\ toast' = "none"
    /\ onUploadArg' = Null
    /\ onCloseCalls' = 0

\* ---- what is rendered (upload-modal.tsx:304-635)
\* line 581: the preview dialog, a modal dialog above the upload dialog
PreviewDialogShown == isOpen /\ ui.isPreviewModalOpen /\ ui.file # Null
\* the upload dialog takes user input
Interactive == isOpen /\ ~PreviewDialogShown
\* line 314
ConfirmationShown == Interactive /\ ui.showEncryptionConfirmation
\* line 416
FormShown == Interactive /\ ~ui.showEncryptionConfirmation /\ ~ui.encrypted
\* line 418
DropZoneShown == FormShown /\ ui.file = Null
\* line 446
FileCardShown == FormShown /\ ui.file # Null

\* the parent renders the modal with isOpen = true
OpenModal ==
    /\ ~isOpen
    /\ isOpen' = TRUE
    /\ Quiet
    /\ UNCHANGED <<ui, hasOnUpload, encrypting, uploading, previewing, previewClicks>>
    /\ UNCHANGED <<totpVars, qrVars, genVars>>

handleCloseKeepConfirmation ==
    /\ Interactive
    /\ ui' = [ui EXCEPT !.file = Null, !.preview = Null, !.isEncrypting = FALSE,
                        !.isUploading = FALSE, !.encrypted = FALSE,
                        !.encryptionResult = Null, !.fileDetails = Null,
                        !.tags = <<>>, !.isPreviewModalOpen = FALSE]
    /\ onCloseCalls' = 1
    /\ isOpen' = FALSE
    /\ toast' = "none"
    /\ onUploadArg' = Null
    /\ UNCHANGED <<hasOnUpload, encrypting, uploading, previewing, previewClicks>>
    /\ UNCHANGED <<totpVars, qrVars, genVars>>

\* upload-modal.tsx:61-73 (line 305: the dialog is dismissed); onClose is the
\* parent's, which stops rendering the modal open
handleClose ==
    /\ Interactive
    /\ ui' = [ui EXCEPT !.file = Null, !.preview = Null, !.isEncrypting = FALSE,
                        !.isUploading = FALSE, !.encrypted = FALSE,
                        !.encryptionResult = Null, !.fileDetails = Null,
                        !.tags = <<>>, !.isPreviewModalOpen = FALSE,
                        !.showEncryptionConfirmation = FALSE]
    /\ onCloseCalls' = 1
    /\ isOpen' = FALSE
    /\ toast' = "none"
    /\ onUploadArg' = Null
    /\ UNCHANGED <<hasOnUpload, encrypting, uploading, previewing, previewClicks>>
    /\ UNCHANGED <<totpVars, qrVars, genVars>>

SelectFileResetAll(f) ==
    IF f # Null
    THEN /\ ui' = [ui EXCEPT !.file = f, !.encrypted = FALSE, !.encryptionResult = Null,
                             !.showEncryptionConfirmation = FALSE,
                             !.fileDetails = FileDetailsOf(f),
                             !.tags = <<>>, !.isEncrypting = FALSE]
         /\ previewing' = previewing \cup {f}
    ELSE UNCHANGED <<ui, previewing>>

\* upload-modal.tsx:77-90 and 123-136: the body the two selection handlers share
SelectFile(f) ==
    IF f # Null
    THEN /\ ui' = [ui EXCEPT !.file = f, !.encrypted = FALSE, !.encryptionResult = Null,
                             !.showEncryptionConfirmation = FALSE,
                             !.fileDetails = FileDetailsOf(f)]
         /\ previewing' = previewing \cup {f}
    ELSE UNCHANGED <<ui, previewing>>

\* upload-modal.tsx:75-91: the file input changed (no file when the dialog was cancelled)
handleFileChange ==
    /\ DropZoneShown
    /\ Cardinality(previewing) < MaxPreviewing
    /\ \E f \in Files \cup {Null} : SelectFile(f)
    /\ Quiet
    /\ UNCHANGED <<isOpen, hasOnUpload, encrypting, uploading, previewClicks>>
    /\ UNCHANGED <<totpVars, qrVars, genVars>>

\* upload-modal.tsx:120-137: something was dropped on the drop zone
handleDrop ==
    /\ DropZoneShown
    /\ Cardinality(previewing) < MaxPreviewing
    /\ \E f \in Files \cup {Null} : SelectFile(f)
    /\ Quiet
    /\ UNCHANGED <<isOpen, hasOnUpload, encrypting, uploading, previewClicks>>
    /\ UNCHANGED <<totpVars, qrVars, genVars>>

\* upload-modal.tsx:93-96: generateFilePreview resolved
PreviewResolved ==
    /\ \E f \in previewing :
          /\ previewing' = previewing \ {f}
          /\ ui' = [ui EXCEPT !.preview = PreviewOf(f)]
    /\ Quiet
    /\ UNCHANGED <<isOpen, hasOnUpload, encrypting, uploading, previewClicks>>
    /\ UNCHANGED <<totpVars, qrVars, genVars>>

\* upload-modal.tsx:97-100: generateFilePreview rejected
PreviewRejected ==
    /\ \E f \in previewing :
          /\ previewing' = previewing \ {f}
          /\ ui' = [ui EXCEPT !.preview = Null]
    /\ Quiet
    /\ UNCHANGED <<isOpen, hasOnUpload, encrypting, uploading, previewClicks>>
    /\ UNCHANGED <<totpVars, qrVars, genVars>>

\* upload-modal.tsx:103-107: Preview File clicked
handlePreviewClick ==
    /\ FileCardShown
    /\ Cardinality(previewClicks) < MaxPreviewing
    /\ previewClicks' = previewClicks \cup {ui.file}
    /\ Quiet
    /\ UNCHANGED <<ui, isOpen, hasOnUpload, encrypting, uploading, previewing>>
    /\ UNCHANGED <<totpVars, qrVars, genVars>>

\* upload-modal.tsx:107-109
PreviewClickResolved ==
    /\ \E f \in previewClicks :
          /\ previewClicks' = previewClicks \ {f}
          /\ ui' = [ui EXCEPT !.previewContent = PreviewOf(f), !.isPreviewModalOpen = TRUE]
    /\ Quiet
    /\ UNCHANGED <<isOpen, hasOnUpload, encrypting, uploading, previewing>>
    /\ UNCHANGED <<totpVars, qrVars, genVars>>

\* upload-modal.tsx:110-117
PreviewClickRejected ==
    /\ \E f \in previewClicks : previewClicks' = previewClicks \ {f}
    /\ toast' = "Preview failed"
    /\ onUploadArg' = Null
    /\ onCloseCalls' = 0
    /\ UNCHANGED <<ui, isOpen, hasOnUpload, encrypting, uploading, previewing>>
    /\ UNCHANGED <<totpVars, qrVars, genVars>>

\* upload-modal.tsx:582 and 625: the preview dialog is dismissed
ClosePreview ==
    /\ PreviewDialogShown
    /\ ui' = [ui EXCEPT !.isPreviewModalOpen = FALSE]
    /\ Quiet
    /\ UNCHANGED <<isOpen, hasOnUpload, encrypting, uploading, previewing, previewClicks>>
    /\ UNCHANGED <<totpVars, qrVars, genVars>>

\* upload-modal.tsx:147-155
handleRemoveFile ==
    /\ FileCardShown
    /\ ui' = [ui EXCEPT !.file = Null, !.preview = Null, !.fileDetails = Null,
                        !.showEncryptionConfirmation = FALSE]
    /\ Quiet
    /\ UNCHANGED <<isOpen, hasOnUpload, encrypting, uploading, previewing, previewClicks>>
    /\ UNCHANGED <<totpVars, qrVars, genVars>>

\* upload-modal.tsx:482-486: the Encrypt file switch
setEncrypt ==
    /\ FileCardShown
    /\ ui' = [ui EXCEPT !.encrypt = ~ui.encrypt]
    /\ Quiet
    /\ UNCHANGED <<isOpen, hasOnUpload, encrypting, uploading, previewing, previewClicks>>
    /\ UNCHANGED <<totpVars, qrVars, genVars>>

InSeq(x, q) == \E i \in 1..Len(q) : q[i] = x

\* upload-modal.tsx:157-168: Enter or ',' in the tag input, holding a trimmed value
handleTagKeyDown ==
    /\ FileCardShown
    /\ \E v \in TagValues \cup {""} :
          ui' = IF v # "" /\ ~InSeq(v, ui.tags)
                THEN [ui EXCEPT !.tags = Append(ui.tags, v)]
                ELSE ui
    /\ Quiet
    /\ UNCHANGED <<isOpen, hasOnUpload, encrypting, uploading, previewing, previewClicks>>
    /\ UNCHANGED <<totpVars, qrVars, genVars>>

\* upload-modal.tsx:170-172
removeTag ==
    /\ FileCardShown
    /\ \E t \in TagValues :
          /\ InSeq(t, ui.tags)
          /\ ui' = [ui EXCEPT !.tags = SelectSeq(ui.tags, LAMBDA x : x # t)]
    /\ Quiet
    /\ UNCHANGED <<isOpen, hasOnUpload, encrypting, uploading, previewing, previewClicks>>
    /\ UNCHANGED <<totpVars, qrVars, genVars>>

\* the identity of a new encryptFile call: its key and iv are those of no call in
\* flight and of no result held
UsedIds ==
    {p.id : p \in encrypting}
    \cup (IF ui.encryptionResult = Null THEN {}
          ELSE {ui.encryptionResult.encryptedFile.encryptedBy})
FreshId == CHOOSE i \in 1..(MaxEncrypting + 1) : i \notin UsedIds

StartEncryptConfirming(u, viaUpload) ==
    IF u.file = Null
    THEN /\ ui' = u
         /\ UNCHANGED encrypting
    ELSE /\ ui' = [u EXCEPT !.isEncrypting = TRUE, !.showEncryptionConfirmation = TRUE]
         /\ encrypting' = encrypting \cup
                {[id |-> FreshId, file |-> u.file, viaUpload |-> viaUpload]}

\* upload-modal.tsx:174-181: handleEncrypt up to its await, on the state u
StartEncrypt(u, viaUpload) ==
    IF u.file = Null
    THEN /\ ui' = u
         /\ UNCHANGED encrypting
    ELSE /\ ui' = [u EXCEPT !.isEncrypting = TRUE]
         /\ encrypting' = encrypting \cup
                {[id |-> FreshId, file |-> u.file, viaUpload |-> viaUpload]}

\* upload-modal.tsx:174-181: the Encrypt File button (line 542, encrypt on)
handleEncrypt ==
    /\ FileCardShown
    /\ ~ui.isUploading /\ ~ui.isEncrypting
    /\ ui.encrypt
    /\ Cardinality(encrypting) < MaxEncrypting
    /\ StartEncrypt(ui, FALSE)
    /\ Quiet
    /\ UNCHANGED <<isOpen, hasOnUpload, uploading, previewing, previewClicks>>
    /\ UNCHANGED <<totpVars, qrVars, genVars>>

UploadDataPlain(u) ==
    IF u.encrypt
    THEN [file |-> u.file, encrypt |-> TRUE,
          encryptionData |-> [algorithm |-> u.encryptionResult.algorithm,
                              encryptionKey |-> u.encryptionResult.encryptionKey,
                              iv |-> u.encryptionResult.iv,
                              checksum |-> u.encryptionResult.checksum,
                              originalFile |-> u.file]]
    ELSE [file |-> u.file, encrypt |-> FALSE, encryptionData |-> Null]

\* upload-modal.tsx:213-216 and 235-245
UploadData(u) ==
    IF u.encrypt
    THEN [file |-> u.encryptionResult.encryptedFile, encrypt |-> TRUE,
          encryptionData |-> [algorithm |-> u.encryptionResult.algorithm,
                              encryptionKey |-> u.encryptionResult.encryptionKey,
                              iv |-> u.encryptionResult.iv,
                              checksum |-> u.encryptionResult.checksum,
                              originalFile |-> u.file]]
    ELSE [file |-> u.file, encrypt |-> FALSE, encryptionData |-> Null]

\* upload-modal.tsx:207-250: handleUpload up to its first await
HandleUploadBody ==
    IF ui.file = Null
    THEN /\ UNCHANGED <<ui, encrypting, uploading>>
         /\ Quiet
    ELSE IF ui.encrypt /\ ~ui.showEncryptionConfirmation
    THEN /\ StartEncrypt([ui EXCEPT !.isUploading = TRUE], TRUE)
         /\ UNCHANGED uploading
         /\ Quiet
    ELSE IF ui.encrypt /\ ui.encryptionResult = Null
    THEN /\ ui' = [ui EXCEPT !.isUploading = FALSE]
         /\ toast' = "Encryption required"
         /\ onUploadArg' = Null
         /\ onCloseCalls' = 0
         /\ UNCHANGED <<encrypting, uploading>>
    ELSE IF hasOnUpload
    THEN /\ ui' = [ui EXCEPT !.isUploading = TRUE]
         /\ onUploadArg' = UploadData(ui)
         /\ uploading' = uploading + 1
         /\ toast' = "none"
         /\ onCloseCalls' = 0
         /\ UNCHANGED encrypting
    ELSE /\ ui' = [ui EXCEPT !.isUploading = FALSE]
         /\ UNCHANGED <<encrypting, uploading>>
         /\ Quiet

\* upload-modal.tsx:542: the Upload File button (encrypt off)
handleUpload ==
    /\ FileCardShown
    /\ ~ui.isUploading /\ ~ui.isEncrypting
    /\ ~ui.encrypt
    /\ uploading < MaxUploading
    /\ HandleUploadBody
    /\ UNCHANGED <<isOpen, hasOnUpload, previewing, previewClicks>>
    /\ UNCHANGED <<totpVars, qrVars, genVars>>

\* upload-modal.tsx:387-391: Continue & Upload on the confirmation screen
handleUploadConfirmed ==
    /\ ConfirmationShown
    /\ ~ui.isUploading
    /\ uploading < MaxUploading
    /\ HandleUploadBody
    /\ UNCHANGED <<isOpen, hasOnUpload, previewing, previewClicks>>
    /\ UNCHANGED <<totpVars, qrVars, genVars>>

\* upload-modal.tsx:221-222, 258-259: handleUpload resumes after `await handleEncrypt()`
AfterHandleEncrypt(u, p) == IF p.viaUpload THEN [u EXCEPT !.isUploading = FALSE] ELSE u

EncryptRejectedFallback(p) ==
    /\ p \in encrypting
    /\ encrypting' = encrypting \ {p}
    /\ ui' = AfterHandleEncrypt([ui EXCEPT !.isEncrypting = FALSE], p)
    /\ toast' = "Encryption failed"
    /\ onUploadArg' = [file |-> p.file, encrypt |-> FALSE, encryptionData |-> Null]
    /\ onCloseCalls' = 0
    /\ UNCHANGED <<isOpen, hasOnUpload, uploading, previewing, previewClicks>>
    /\ UNCHANGED <<totpVars, qrVars, genVars>>

\* upload-modal.tsx:181-184, 202-204: encryptFile resolved
EncryptResolved(p) ==
    /\ p \in encrypting
    /\ encrypting' = encrypting \ {p}
    /\ ui' = AfterHandleEncrypt(
                [ui EXCEPT !.encryptionResult = EncryptFileResult(p.file, p.id),
                           !.encrypted = TRUE,
                           !.showEncryptionConfirmation = TRUE,
                           !.isEncrypting = FALSE], p)
    /\ Quiet
    /\ UNCHANGED <<isOpen, hasOnUpload, uploading, previewing, previewClicks>>
    /\ UNCHANGED <<totpVars, qrVars, genVars>>

EncryptRejectedStuck(p) ==
    /\ p \in encrypting
    /\ encrypting' = encrypting \ {p}
    /\ ui' = ui
    /\ toast' = "Encryption failed"
    /\ onUploadArg' = Null
    /\ onCloseCalls' = 0
    /\ UNCHANGED <<isOpen, hasOnUpload, uploading, previewing, previewClicks>>
    /\ UNCHANGED <<totpVars, qrVars, genVars>>

\* upload-modal.tsx:185-194, 202-204: encryptFile rejected
EncryptRejected(p) ==
    /\ p \in encrypting
    /\ encrypting' = encrypting \ {p}
    /\ ui' = AfterHandleEncrypt([ui EXCEPT !.isEncrypting = FALSE], p)
    /\ toast' = "Encryption failed"
    /\ onUploadArg' = Null
    /\ onCloseCalls' = 0
    /\ UNCHANGED <<isOpen, hasOnUpload, uploading, previewing, previewClicks>>
    /\ UNCHANGED <<totpVars, qrVars, genVars>>

EncryptSettled == \E p \in encrypting : EncryptResolved(p) \/ EncryptRejected(p)

\* upload-modal.tsx:249, 258-260: onUpload settled without an error
UploadResolved ==
    /\ uploading > 0
    /\ uploading' = uploading - 1
    /\ ui' = [ui EXCEPT !.isUploading = FALSE]
    /\ Quiet
    /\ UNCHANGED <<isOpen, hasOnUpload, encrypting, previewing, previewClicks>>
    /\ UNCHANGED <<totpVars, qrVars, genVars>>

\* upload-modal.tsx:251-260: onUpload threw or rejected
UploadRejected ==
    /\ uploading > 0
    /\ uploading' = uploading - 1
    /\ ui' = [ui EXCEPT !.isUploading = FALSE]
    /\ toast' = "Upload failed"
    /\ onUploadArg' = Null
    /\ onCloseCalls' = 0
    /\ UNCHANGED <<isOpen, hasOnUpload, encrypting, previewing, previewClicks>>
    /\ UNCHANGED <<totpVars, qrVars, genVars>>

\* upload-modal.tsx:263-272
handleDownloadEncrypted ==
    /\ ConfirmationShown
    /\ toast' = IF ui.encryptionResult # Null THEN "Download started" ELSE "none"
    /\ onUploadArg' = Null
    /\ onCloseCalls' = 0
    /\ UNCHANGED <<ui, isOpen, hasOnUpload, encrypting, uploading, previewing,
                   previewClicks>>
    /\ UNCHANGED <<totpVars, qrVars, genVars>>

\* upload-modal.tsx:274-282 and 362-370: the key or the iv is copied
handleCopyToClipboard ==
    /\ ConfirmationShown
    /\ toast' = IF ui.encryptionResult # Null THEN "Copied to clipboard" ELSE "none"
    /\ onUploadArg' = Null
    /\ onCloseCalls' = 0
    /\ UNCHANGED <<ui, isOpen, hasOnUpload, encrypting, uploading, previewing,
                   previewClicks>>
    /\ UNCHANGED <<totpVars, qrVars, genVars>>

NextModal ==
    \/ OpenModal
    \/ handleClose
    \/ handleFileChange
    \/ handleDrop
    \/ PreviewResolved
    \/ PreviewRejected
    \/ handlePreviewClick
    \/ PreviewClickResolved
    \/ PreviewClickRejected
    \/ ClosePreview
    \/ handleRemoveFile
    \/ setEncrypt
    \/ handleTagKeyDown
    \/ removeTag
    \/ handleEncrypt
    \/ handleUpload
    \/ handleUploadConfirmed
    \/ EncryptSettled
    \/ UploadResolved
    \/ UploadRejected
    \/ handleDownloadEncrypted
    \/ handleCopyToClipboard

\* ------------------------------------------------------------ specifications
\* <<secret, code>> pairs a caller may pass when the clock shows `now`
TotpInputs == UNION {{<<s, c>> : c \in CodesFor(s, now)} : s \in AllSecrets}

NextTotp == VerifyCall(TotpInputs) \/ VerifySteps

\* one verifyTOTP call, over every secret, code and starting clock value
InitTotpSpec == InitTotp /\ InitQr /\ InitGen /\ InitModal

SpecTotp == InitTotpSpec /\ [][NextTotp]_vars

\* repeated verifyTOTP calls, over fewer inputs
RepeatSecrets == {ExampleSecret, <<"A", "A">>, <<"J", "B", "1", "W">>}
RepeatTimes == {FirstStep * StepMs + 5000, FirstStep * StepMs + StepMs - 1}
RepeatCodes(s, t) ==
    LET ref == IF IsBase32(s) THEN s ELSE ExampleSecret
    IN {TokenOfStep(ref, StepOf(t)), TokenOfStep(ref, StepOf(t) + 2),
        SubSeq(TokenOfStep(ref, StepOf(t)), 1, 5)}

InitTotpCalls == InitTotp /\ InitQr /\ InitGen /\ InitModal /\ now \in RepeatTimes

RepeatInputs == UNION {{<<s, c>> : c \in RepeatCodes(s, now)} : s \in RepeatSecrets}

NextTotpCalls == VerifyCall(RepeatInputs) \/ VerifySteps \/ Return(RepeatTimes)

SpecTotpCalls == InitTotpCalls /\ [][NextTotpCalls]_vars

NextQr == QrCall(QrSecrets, QrEmails, QrAppNames) \/ QrSteps

\* one generateMFAQRCode call, over every secret, label and issuer
\* the clock plays no part outside verifyTOTP: it is held at one value
InitFixedClock == InitTotp /\ now = FirstStep * StepMs /\ InitQr /\ InitGen /\ InitModal

SpecQr == InitFixedClock /\ [][NextQr]_vars

\* one generateMFASecret call, over the sequences of extreme random draws
SpecGen == InitFixedClock /\ [][NextGen]_vars

\* enrollment and login: a provisioning URI is generated, codes are verified
EnrollEmails == {<<"a", "l", "i", "c", "e", "@", "e", "x", "a", "m", "p", "l", "e", ".", "c", "o", "m">>, <<"a", " ", "b">>}
EnrollSecrets == {ExampleSecret, <<"A", "A">>}
EnrollCodes(s, t) == {TokenOfStep(s, StepOf(t)), TokenOfStep(s, StepOf(t) - 1)}

EnrollInputs == UNION {{<<s, c>> : c \in EnrollCodes(s, now)} : s \in EnrollSecrets}

NextEnroll ==
    \/ QrCall(EnrollSecrets, EnrollEmails, {DefaultAppName})
    \/ QrSteps
    \/ VerifyCall(EnrollInputs)
    \/ VerifySteps

SpecEnroll == InitTotpSpec /\ [][NextEnroll]_vars

\* the upload modal, over every order of user events and completions
SpecModal == InitFixedClock /\ [][NextModal]_vars

\* the upload flow alone (no preview dialog, no tags, no download or copy), with
\* every encryptFile call and every onUpload call settling eventually
NextModalFlow ==
    \/ OpenModal
    \/ handleClose
    \/ handleFileChange
    \/ handleDrop
    \/ PreviewResolved
    \/ PreviewRejected
    \/ handleRemoveFile
    \/ setEncrypt
    \/ handleEncrypt
    \/ handleUpload
    \/ handleUploadConfirmed
    \/ EncryptSettled
    \/ UploadResolved
    \/ UploadRejected

SpecModalSettling ==
    /\ InitFixedClock
    /\ [][NextModalFlow]_vars
    /\ WF_vars(EncryptSettled)
    /\ WF_vars(UploadResolved \/ UploadRejected)

\* ------------------------------------------------------------ claims: verifyTOTP
\* the token of secret s at the timestamp t (ms), with SHA1, 6 digits, period 30 s
TokenAt(s, t) == TotpGenerate(NewTOTP(SecretFromBase32(s).bytes), t)

Returned == pc = "done"

\* The clock value T of a call, for C1 and C2: the first value the call reads (line
\* 51), which is the reading most favourable to the two claims.
FirstRead == reads[1]

\* C1: whatever the clock does between the three reads, a call made at clock value T
\* returns true for the code of T, of T - 30 s and of T + 30 s.
C1_WindowAlwaysAccepted ==
    (/\ Returned
     /\ IsBase32(secret)
     /\ code \in {TokenAt(secret, FirstRead), TokenAt(secret, FirstRead - 30000),
                  TokenAt(secret, FirstRead + 30000)})
    => result = TRUE

\* C2: a code that belongs only to a step 2 or more away from the step of the clock
\* value T at the start of the call is rejected.
C2_WindowNeverWidened ==
    (/\ Returned
     /\ IsBase32(secret)
     /\ \E j \in (StepOf(FirstRead) - 3)..(StepOf(FirstRead) + 4) :
            /\ code = TokenOfStep(secret, j)
            /\ (j >= StepOf(FirstRead) + 2 \/ j <= StepOf(FirstRead) - 2)
     /\ \A j \in (StepOf(FirstRead) - 1)..(StepOf(FirstRead) + 1) :
            code # TokenOfStep(secret, j))
    => result = FALSE

\* C3: a code generated at T is accepted by a call made at T + 25 s and rejected by a
\* call made at T + 65 s (codes of distinct steps being distinct).
C3_Accept25Reject65 ==
    (Returned /\ IsBase32(secret)) =>
        /\ code = TokenAt(secret, callTime - 25000) => result = TRUE
        /\ (/\ code = TokenAt(secret, callTime - 65000)
            /\ \A j \in (StepOf(callTime) - 4)..(StepOf(callTime) + 4) :
                   j # StepOf(callTime - 65000) => code # TokenOfStep(secret, j))
           => result = FALSE

\* a call made 25 s after the code was generated, in the step after the code's
C3_Witness ==
    /\ Returned
    /\ IsBase32(secret)
    /\ code = TokenAt(secret, callTime - 25000)
    /\ StepOf(callTime - 25000) = StepOf(callTime) - 1
    /\ result = TRUE

IsSixDigits(c) == Len(c) = 6 /\ \A i \in 1..Len(c) : IsDigit(c[i])

\* C4: a code whose length is not 6, or that holds a non-digit, is rejected: the call
\* returns false and does not throw.
C4_MalformedCodeRejected ==
    (Returned /\ ~IsSixDigits(code)) => (result = FALSE /\ outcome = "returned")

\* the first five digits of the current token were supplied, and rejected
C4_Witness ==
    /\ Returned
    /\ currentToken # NoToken
    /\ code = SubSeq(currentToken, 1, 5)
    /\ result = FALSE

\* C5: with a secret that is not Base32 the call returns false; no exception reaches
\* the caller.
C5_MalformedSecretFalse ==
    /\ outcome # "threw"
    /\ (Returned /\ ~IsBase32(secret)) => (result = FALSE /\ outcome = "returned")

C5_Witness ==
    /\ Returned
    /\ ~IsBase32(secret)
    /\ IsSixDigits(code)
    /\ result = FALSE
    /\ outcome = "returned"

\* C9: a call with the code, secret and clock readings of the call before it returns
\* what that call returned; a code accepted once is accepted again.
C9_StatelessDeterministic ==
    (/\ Returned
     /\ prev # Null
     /\ prev.code = code
     /\ prev.secret = secret
     /\ prev.reads = reads)
    => (result = prev.result /\ outcome = prev.outcome)

\* the same code verified twice in a row at the same clock readings, accepted twice
C9_Witness ==
    /\ Returned
    /\ prev # Null
    /\ prev.code = code
    /\ prev.secret = secret
    /\ prev.reads = reads
    /\ prev.result = TRUE
    /\ result = TRUE

\* ------------------------------------------------------------ claims: generateMFAQRCode
ReservedChars == {" ", "#", "%", "&", "+", "/", ":", "=", "?", "@"}

RECURSIVE decodeURIComponent(_)
\* the inverse of percent-encoding: "%XY" stands for the character it escapes
decodeURIComponent(s) ==
    IF s = <<>> THEN <<>>
    ELSE IF Head(s) = "%" /\ Len(s) >= 3
         THEN <<CHOOSE c \in ReservedChars : EscapeOf(c) = SubSeq(s, 1, 3)>>
              \o decodeURIComponent(SubSeq(s, 4, Len(s)))
         ELSE <<Head(s)>> \o decodeURIComponent(Tail(s))

\* position of the first c in s, 0 when there is none
IndexOf(s, c) ==
    IF \E i \in 1..Len(s) : s[i] = c
    THEN CHOOSE i \in 1..Len(s) : s[i] = c /\ \A j \in 1..(i - 1) : s[j] # c
    ELSE 0

From(s, i) == SubSeq(s, i, Len(s))
Upto(s, i) == SubSeq(s, 1, i)

\* a percent-encoded component: unreserved characters and "%XY" escapes only
IsEncodedComponent(e) == \A i \in 1..Len(e) : e[i] \in UnreservedChars \cup {"%"}

\* the URI read back: otpauth://totp/<issuer>:<label>?<query>
UriPath == From(otpAuthUrl, Len(OtpAuthPrefix) + 1)
UriIssuer == Upto(UriPath, IndexOf(UriPath, ":") - 1)
UriAfterIssuer == From(UriPath, IndexOf(UriPath, ":") + 1)
UriLabel == Upto(UriAfterIssuer, IndexOf(UriAfterIssuer, "?") - 1)
UriQuery == From(UriAfterIssuer, IndexOf(UriAfterIssuer, "?"))

\* C7: the provisioning URI is otpauth://totp/<enc(issuer)>:<enc(label)>?secret=<secret>
\* &issuer=<enc(issuer)>&algorithm=SHA1&digits=6&period=30, issuer and label
\* percent-encoded, the secret verbatim.
C7_ProvisioningUri ==
    otpAuthUrl # NoToken =>
        /\ Upto(otpAuthUrl, Len(OtpAuthPrefix)) = <<"o", "t", "p", "a", "u", "t", "h", ":", "/", "/", "t", "o", "t", "p", "/">>
        /\ IndexOf(UriPath, ":") > 0
        /\ IndexOf(UriAfterIssuer, "?") > 0
        /\ IsEncodedComponent(UriIssuer)
        /\ decodeURIComponent(UriIssuer) = qrAppName
        /\ IsEncodedComponent(UriLabel)
        /\ decodeURIComponent(UriLabel) = qrEmail
        /\ UriQuery = <<"?", "s", "e", "c", "r", "e", "t", "=">> \o qrSecret \o <<"&", "i", "s", "s", "u", "e", "r", "=">> \o UriIssuer
                       \o <<"&", "a", "l", "g", "o", "r", "i", "t", "h", "m", "=", "S", "H", "A", "1", "&", "d", "i", "g", "i", "t", "s", "=", "6", "&", "p", "e", "r", "i", "o", "d", "=", "3", "0">>

\* a URI built from a label and an issuer that both need escaping
C7_Witness ==
    /\ otpAuthUrl # NoToken
    /\ qrOutcome = "returned"
    /\ qrEmail = <<"a", ":", "b", "?", "#">>
    /\ qrAppName = <<"a", "/", "b", "&">>
    /\ qrSecret = ExampleSecret

RECURSIVE Split(_, _)
\* s cut at every sep
Split(s, sep) ==
    IF IndexOf(s, sep) = 0 THEN <<s>>
    ELSE <<Upto(s, IndexOf(s, sep) - 1)>> \o Split(From(s, IndexOf(s, sep) + 1), sep)

\* the value of the query parameter `name` of the URI, <<>> when it is absent
QueryParam(name) ==
    LET parts == Split(Tail(UriQuery), "&")
        hit(i) == /\ Len(parts[i]) > Len(name)
                  /\ Upto(parts[i], Len(name) + 1) = name \o <<"=">>
    IN IF \E i \in 1..Len(parts) : hit(i)
       THEN From(parts[CHOOSE i \in 1..Len(parts) : hit(i)], Len(name) + 2)
       ELSE <<>>

\* C6: the algorithm, digits and period written into the URI (SHA1, 6, 30) are those
\* of the TOTP object verifyTOTP builds, and the offsets verifyTOTP applies to the
\* clock are one period.
C6_ParametersMatch ==
    /\ (otpAuthUrl # NoToken /\ totp # Null) =>
           /\ QueryParam(<<"a", "l", "g", "o", "r", "i", "t", "h", "m">>) = totp.algorithm
           /\ QueryParam(<<"d", "i", "g", "i", "t", "s">>) = ToDecimal(totp.digits)
           /\ QueryParam(<<"p", "e", "r", "i", "o", "d">>) = ToDecimal(totp.period)
           /\ totp.algorithm = <<"S", "H", "A", "1">>
           /\ totp.digits = 6
           /\ totp.period = 30
    /\ (totp # Null /\ Len(stamps) >= 2) => reads[2] - stamps[2] = 1000 * totp.period
    /\ (totp # Null /\ Len(stamps) >= 3) => stamps[3] - reads[3] = 1000 * totp.period

\* a URI has been built and a verification has generated its three tokens
C6_Witness ==
    /\ otpAuthUrl # NoToken
    /\ totp # Null
    /\ Len(stamps) = 3
    /\ pc = "done"

\* ------------------------------------------------------------ claims: generateMFASecret
\* the RFC 4648 Base32 alphabet: uppercase A-Z and 2-7
Rfc4648Alphabet ==
    {"A", "B", "C", "D", "E", "F", "G", "H", "I", "J", "K", "L", "M", "N", "O", "P", "Q",
     "R", "S", "T", "U", "V", "W", "X", "Y", "Z"} \cup {"2", "3", "4", "5", "6", "7"}

\* C8: every secret returned has exactly 16 characters, all of the RFC 4648 Base32
\* alphabet; every index computed is within 0..31; the secret decodes to 80 bits.
C8_SecretWellFormed ==
    /\ (genPc # "idle" /\ genI > 0) => genIndex \in 0..31
    /\ genPc = "loop" => \A k \in 0..(RandDenom - 1) : RandomIndex(k) \in 0..31
    /\ genPc = "done" =>
           /\ Len(genSecret) = 16
           /\ \A i \in 1..Len(genSecret) : genSecret[i] \in Rfc4648Alphabet
           /\ 5 * Len(genSecret) = 80
           /\ Len(SecretFromBase32(genSecret).bytes) * 8 = 80

\* a returned secret whose first draw was the least and whose last the greatest
C8_Witness ==
    /\ genPc = "done"
    /\ genSecret[1] = "A"
    /\ genSecret[Len(genSecret)] = "7"

\* ------------------------------------------------------------ claims: UploadModal

\* C10: whenever encryptFile rejects inside handleEncrypt, the step raises the
\* "Encryption failed" toast, leaves encryptionResult, encrypted and
\* showEncryptionConfirmation as they were, and makes no onUpload call (none is
\* started, none is handed the plaintext file).
C10_EncryptionFailureSurfaced ==
    [][(\E p \in encrypting : EncryptRejected(p)) =>
          /\ toast' = "Encryption failed"
          /\ ui'.encryptionResult = ui.encryptionResult
          /\ ui'.encrypted = ui.encrypted
          /\ ui'.showEncryptionConfirmation = ui.showEncryptionConfirmation
          /\ onUploadArg' = Null
          /\ uploading' = uploading]_vars

\* an encryptFile call for the selected file has just been rejected: the form is
\* still shown with the file, encrypt on, nothing stored and nothing uploading
C10_Witness ==
    /\ toast = "Encryption failed"
    /\ isOpen
    /\ ui.file # Null
    /\ ui.encrypt
    /\ ~ui.isEncrypting
    /\ ui.encryptionResult = Null
    /\ ~ui.encrypted
    /\ ~ui.showEncryptionConfirmation
    /\ encrypting = {}
    /\ uploading = 0

\* C11: the encryption result is not retained after the flow is closed. While the
\* modal is closed no file can be selected and no encryption started, so in every
\* state with the modal closed encryptionResult is null and
\* showEncryptionConfirmation is false, also when an encryptFile call started
\* before the close completes after it.
C11_NothingRetainedAfterClose ==
    ~isOpen => (ui.encryptionResult = Null /\ ~ui.showEncryptionConfirmation)

\* C12: every payload handed to onUpload is well-formed. With encrypt off it is the
\* selected file, encrypt false and no encryptionData; with encrypt on it is
\* encryptionResult.encryptedFile, encrypt true and the algorithm, key, iv and
\* checksum of the stored result. No call carries encrypt true with the plaintext
\* file, and no call is made when no file is selected.
C12_PayloadWellFormed ==
    [][onUploadArg' # Null =>
          /\ ui.file # Null
          /\ onUploadArg'.encrypt = ui.encrypt
          /\ ~ui.encrypt =>
                /\ onUploadArg'.file = ui.file
                /\ onUploadArg'.encryptionData = Null
          /\ ui.encrypt =>
                /\ ui.encryptionResult # Null
                /\ onUploadArg'.file = ui.encryptionResult.encryptedFile
                /\ onUploadArg'.file.encryptedBy # 0
                /\ onUploadArg'.file # ui.file
                /\ onUploadArg'.encryptionData.algorithm = ui.encryptionResult.algorithm
                /\ onUploadArg'.encryptionData.encryptionKey
                      = ui.encryptionResult.encryptionKey
                /\ onUploadArg'.encryptionData.iv = ui.encryptionResult.iv
                /\ onUploadArg'.encryptionData.checksum = ui.encryptionResult.checksum]_vars

\* onUpload has just been handed an encrypted payload
C12_Witness ==
    /\ onUploadArg # Null
    /\ onUploadArg.encrypt
    /\ onUploadArg.file.encryptedBy # 0
    /\ uploading = 1

\* C13: the confirmation screen is entered only by the successful completion of an
\* encryptFile call that handleEncrypt started with a file selected, and an onUpload
\* call with encrypt = true is made only from a state in which the confirmation
\* screen is shown.
C13_FlowOrder ==
    [][/\ (~ui.showEncryptionConfirmation /\ ui'.showEncryptionConfirmation) =>
              \E p \in encrypting : p.file \in Files /\ EncryptResolved(p)
       /\ (onUploadArg' # Null /\ onUploadArg'.encrypt) =>
              (ui.showEncryptionConfirmation /\ ConfirmationShown)]_vars

\* an encrypted upload is under way from the confirmation screen of the selected file
C13_Witness ==
    /\ ui.showEncryptionConfirmation
    /\ ui.encrypted
    /\ ui.isUploading
    /\ ui.file # Null
    /\ onUploadArg # Null
    /\ onUploadArg.encrypt
    /\ onUploadArg.encryptionData.originalFile = ui.file

\* ------------------------------------------------------------ claims: randomness

\* the cryptographically secure random sources of the platform (Web Crypto, node:crypto)
SecureRandomSources ==
    {"crypto.getRandomValues", "crypto.randomBytes", "crypto.randomInt",
     "crypto.randomUUID"}

\* C14: every character of a generated secret is drawn from a cryptographically
\* secure random source, not from a general-purpose pseudo-random generator.
C14_SecureRandomSource ==
    genI > 0 => RandomSource \in SecureRandomSources

\* ------------------------------------------------------------ claims: timing

\* C15: the work the comparison of line 59 does is the same for every supplied code
\* of the same length: it depends neither on how many leading characters of the code
\* are correct nor on which of the three candidates matches.
C15_ConstantTimeCompare ==
    (Returned /\ nextToken # NoToken) =>
        \A other \in {currentToken, previousToken, nextToken} :
            Len(other) = Len(code) =>
                CompareCost(other, currentToken, previousToken, nextToken)
                  = CompareCost(code, currentToken, previousToken, nextToken)

\* ------------------------------------------------------------ claims: UploadModal frames

\* C16: handleFileChange and handleDrop have the same effect. With a file supplied
\* they set file and fileDetails to it and reset encrypted, encryptionResult and
\* showEncryptionConfirmation, and leave every other state value (encrypt, tags,
\* isEncrypting, isUploading among them) as it was; with no file nothing changes.
C16_SelectionFrame ==
    [][/\ handleFileChange <=> handleDrop
       /\ (handleFileChange \/ handleDrop) =>
             \/ \E f \in Files :
                   ui' = [ui EXCEPT !.file = f,
                                    !.fileDetails = FileDetailsOf(f),
                                    !.encrypted = FALSE,
                                    !.encryptionResult = Null,
                                    !.showEncryptionConfirmation = FALSE]
             \/ ui' = ui]_vars

\* a file has just been selected while an encryption of the file selected before it
\* is pending, with a tag entered and the encrypt switch on
C16_Witness ==
    /\ ui.file # Null
    /\ previewing = {ui.file}
    /\ ui.fileDetails = FileDetailsOf(ui.file)
    /\ ui.isEncrypting
    /\ \E p \in encrypting : p.file # ui.file
    /\ ui.encrypt
    /\ Len(ui.tags) > 0
    /\ ~ui.encrypted
    /\ ui.encryptionResult = Null
    /\ ~ui.showEncryptionConfirmation

\* ------------------------------------------------------------ claims: UploadModal interleavings

\* C17: every onUpload call made from a state with showEncryptionConfirmation = true
\* carries encrypt = true and file = encryptionResult.encryptedFile, never the
\* plaintext file, whatever user events interleaved with the pending encryptFile call.
C17_ConfirmedUploadEncrypted ==
    [][(onUploadArg' # Null /\ ui.showEncryptionConfirmation) =>
          /\ onUploadArg'.encrypt
          /\ ui.encryptionResult # Null
          /\ onUploadArg'.file = ui.encryptionResult.encryptedFile
          /\ onUploadArg'.file.encryptedBy # 0]_vars

\* C18: the stored encryption result always belongs to the selected file: whenever
\* encryptionResult and file are both non-null the result is what encryptFile
\* produced from that file, and every onUpload call with encryptionData names as
\* originalFile the file whose ciphertext it uploads.
C18_ResultOfSelectedFile ==
    /\ (ui.encryptionResult # Null /\ ui.file # Null) =>
          \E id \in 1..(MaxEncrypting + 1) :
              ui.encryptionResult = EncryptFileResult(ui.file, id)
    /\ (onUploadArg # Null /\ onUploadArg.encrypt) =>
          \E id \in 1..(MaxEncrypting + 1) :
              onUploadArg.file
                = EncryptFileResult(onUploadArg.encryptionData.originalFile, id).encryptedFile

\* ------------------------------------------------------------ claims: UploadModal invariants

\* C19: in every reachable state showEncryptionConfirmation = true implies that
\* encryptionResult is non-null and encrypted is true, and no step takes the
\* "Encryption required" branch of handleUpload.
C19_ConfirmationHasResult ==
    /\ ui.showEncryptionConfirmation => (ui.encryptionResult # Null /\ ui.encrypted)
    /\ toast # "Encryption required"

\* Continue & Upload has been pressed with encrypt on, on a confirmation screen whose
\* result is not that of the file now selected
C19_Witness ==
    /\ ui.showEncryptionConfirmation
    /\ ui.encrypt
    /\ ui.isUploading
    /\ uploading = 1
    /\ ui.file # Null
    /\ ui.encryptionResult # Null
    /\ ui.encryptionResult.encryptedFile.name # ui.file.name
    /\ toast = "none"

\* C20: in every reachable state where the confirmation screen is shown a file is
\* selected, so Continue & Upload always reaches onUpload.
C20_ConfirmationHasFile ==
    ui.showEncryptionConfirmation => ui.file # Null

\* ------------------------------------------------------------ claims: UploadModal termination

\* C21: the busy flags are always cleared. isEncrypting is true only while an
\* encryptFile call is in flight and isUploading only while an onUpload call is in
\* flight (no invocation of handleEncrypt or handleUpload ends, on success, failure
\* or early return, leaving its flag set); provided encryptFile and onUpload settle,
\* a modal showing "Encrypting..." or "Uploading..." eventually stops showing it.
C21_BusyFlagsCleared ==
    /\ [](ui.isEncrypting => encrypting # {})
    /\ [](ui.isUploading => uploading > 0)
    /\ ui.isEncrypting ~> ~ui.isEncrypting
    /\ ui.isUploading ~> ~ui.isUploading

\* an upload from the confirmation screen has just failed and both flags are clear
C21_Witness ==
    /\ toast = "Upload failed"
    /\ isOpen
    /\ ui.showEncryptionConfirmation
    /\ ~ui.isUploading
    /\ ~ui.isEncrypting
    /\ encrypting = {}
    /\ uploading = 0

\* ------------------------------------------------------------ claims: handleClose

\* C22: handleClose returns the modal to its initial state: right after it runs,
\* file, preview, fileDetails and encryptionResult are null, isEncrypting,
\* isUploading, encrypted, isPreviewModalOpen, showEncryptionConfirmation and the
\* encrypt toggle are false, tags is empty, and onClose was called exactly once.
C22_CloseRestoresInitialState ==
    [][handleClose =>
          /\ ui'.file = Null
          /\ ui'.preview = Null
          /\ ui'.fileDetails = Null
          /\ ui'.encryptionResult = Null
          /\ ~ui'.isEncrypting
          /\ ~ui'.isUploading
          /\ ~ui'.encrypted
          /\ ~ui'.isPreviewModalOpen
          /\ ~ui'.showEncryptionConfirmation
          /\ ~ui'.encrypt
          /\ ui'.tags = <<>>
          /\ onCloseCalls' = 1]_vars

\* ------------------------------------------------------------ claims: UploadModal concurrency

\* C23: at most one encryptFile call is pending at any time: no sequence of user
\* events starts a second call before the first has settled.
C23_OneEncryptionPending ==
    Cardinality(encrypting) <= 1

====
